---- MODULE Spec2Model ----
(***************************************************************************)
(* Model of xivo_agid/agid.py: the database connection pool, the handler   *)
(* registry with one reader-writer lock per handler, the FastAGI request   *)
(* dispatcher (one thread per request) and the SIGHUP reload, which        *)
(* CPython runs as a nested frame on top of whatever the main thread is    *)
(* executing.                                                              *)
(***************************************************************************)
EXTENDS Integers, Sequences, FiniteSets, TLC

\* ---- bounds ----
NumWorkers == 2      \* request threads
MaxSignals == 2      \* SIGHUPs delivered in a run
MaxFaults == 2       \* calls that raise in a run (database, protocol, handler code)
MaxEvents == 3       \* requests started, SIGHUPs delivered and calls that raise in a run
MaxSize == 1         \* connection_pool_size values are 0..MaxSize
MaxConn == 3         \* connections the database accepts in a run
ScnMaxN == 3         \* pool sizes of the single-caller scenario are 0..ScnMaxN
MaxRegs == 3         \* register() calls in a run of the registration scenario

\* ---- identities ----
Main == 0
Workers == 1..NumWorkers
NoOwner == -1
NoConn == 0

\* the registry (_handlers), in the order itervalues() walks it
HandlerOrder == <<"h1", "h2", "h3">>
Handlers == {HandlerOrder[j] : j \in 1..Len(HandlerOrder)}
\* handlers registered with a setup_fn (h3 is registered with setup_fn=None)
SetupFn == {"h1", "h2"}
\* what a request header can carry in agi_network_script
Names == Handlers \cup {"ghost"}
Uris == {"u1"}

VARIABLES
  pool,       \* DBConnectionPool: conns, size, db_uri
  db,         \* the connection objects: how many were opened, which are closed,
              \* and how many had been opened when reload last replaced the reserve
  poolLock,   \* DBConnectionPool.lock: owning thread or NoOwner
  rw,         \* Handler.lock of every handler: readers and writer
  stk,        \* the main thread's frames: bootstrap at the bottom, sighup_handle frames above
  wk,         \* one FastAGIRequestHandler.handle activation per worker thread
  sigs,       \* SIGHUPs delivered so far
  installed,  \* signal.signal(SIGHUP, sighup_handle) was executed
  server,     \* the global _server is set
  faults,     \* calls that raised so far
  scn,        \* the single-caller pool scenario (used by SpecPool only)
  reg         \* _handlers as register() builds it, and the calls made (SpecRegister only)

vars == <<pool, db, poolLock, rw, stk, wk, sigs, installed, server, faults, scn, reg>>

Range(s) == {s[j] : j \in 1..Len(s)}
Ev(e, h) == <<e, h>>

\* an activation: a worker's handle(), the bootstrap, or one sighup_handle call
Act(pc, op) ==
  [pc |-> pc, op |-> op, name |-> "", i |-> 0, conn |-> NoConn,
   exc |-> "none", pend |-> FALSE, fagi |-> FALSE, ev |-> <<>>]

Top == stk[Len(stk)]
Cur(self) == IF self = Main THEN Top ELSE wk[self]
Upd(self, a) ==
  IF self = Main
    THEN stk' = [stk EXCEPT ![Len(stk)] = a] /\ UNCHANGED wk
    ELSE wk' = [wk EXCEPT ![self] = a] /\ UNCHANGED stk
Threads == {Main} \cup Workers
\* the thread has something to run (its top activation exists and has no
\* exception waiting to be raised in it)
Runs(self) == (self = Main => Len(stk) > 0) /\ ~Cur(self).pend

\* ------------------------------------------------------------------------
\* DBConnectionPool
\* ------------------------------------------------------------------------
PoolInit == [conns |-> <<>>, size |-> 0, db_uri |-> "none"]
DbInit == [opened |-> 0, closed |-> {}, before |-> 0]

\* reload(size, db_uri); k of the size connect_by_uri calls succeed before
\* one raises (k = size: none raises)
reload(p, d, size, db_uri, k) ==
  LET d1 == [d EXCEPT !.closed = @ \cup Range(p.conns)]
      fresh == [j \in 1..k |-> d.opened + j]
  IN IF k = size
       THEN [pool |-> [conns |-> fresh, size |-> size, db_uri |-> db_uri],
             db |-> [d1 EXCEPT !.opened = @ + k, !.before = d.opened], ok |-> TRUE]
       \* the list comprehension is abandoned: self.conns, self.size and
       \* self.db_uri keep their old values, the k new connections are dropped
       ELSE [pool |-> p,
             db |-> [d1 EXCEPT !.opened = @ + k, !.closed = @ \cup Range(fresh)],
             ok |-> FALSE]

\* acquire() that reads the last connection of the reserve without removing it
acquire_Peek(p, d, okc) ==
  IF Len(p.conns) > 0
    THEN [pool |-> p, db |-> d, conn |-> p.conns[Len(p.conns)], ok |-> TRUE]
    ELSE IF okc /\ p.db_uri # "none"
      THEN [pool |-> p, db |-> [d EXCEPT !.opened = @ + 1],
            conn |-> d.opened + 1, ok |-> TRUE]
      ELSE [pool |-> p, db |-> d, conn |-> NoConn, ok |-> FALSE]

\* acquire(); okc: the connect_by_uri of the empty-pool branch succeeds
acquire(p, d, okc) ==
  IF Len(p.conns) > 0
    THEN [pool |-> [p EXCEPT !.conns = SubSeq(@, 1, Len(@) - 1)], db |-> d,
          conn |-> p.conns[Len(p.conns)], ok |-> TRUE]
    ELSE IF okc /\ p.db_uri # "none"
      THEN [pool |-> p, db |-> [d EXCEPT !.opened = @ + 1],
            conn |-> d.opened + 1, ok |-> TRUE]
      ELSE [pool |-> p, db |-> d, conn |-> NoConn, ok |-> FALSE]

\* release(conn) with the capacity test off by one
release_OffByOne(p, d, conn) ==
  IF Len(p.conns) <= p.size
    THEN [pool |-> [p EXCEPT !.conns = Append(@, conn)], db |-> d]
    ELSE [pool |-> p, db |-> [d EXCEPT !.closed = @ \cup {conn}]]

\* release(conn)
release(p, d, conn) ==
  IF Len(p.conns) < p.size
    THEN [pool |-> [p EXCEPT !.conns = Append(@, conn)], db |-> d]
    ELSE [pool |-> p, db |-> [d EXCEPT !.closed = @ \cup {conn}]]

\* a call that may raise: it raises only while the run's budget of raised
\* calls allows it
Started == Cardinality({w \in Workers : wk[w].pc # "idle"})
Budget == Started + sigs + faults < MaxEvents
MayFail(ok) ==
  /\ ok \/ (faults < MaxFaults /\ Budget)
  /\ faults' = IF ok THEN faults ELSE faults + 1

\* `with self.lock:` entry, at any of the three operations
PoolLock(self) ==
  LET a == Cur(self) IN
  /\ Runs(self) /\ a.op = "lock"
  /\ poolLock = NoOwner
  /\ poolLock' = self
  /\ Upd(self, [a EXCEPT !.op = "body"])
  /\ UNCHANGED <<pool, db, rw, sigs, installed, server, faults, scn, reg>>

\* where the caller continues after the pool operation it called at a.pc
AfterPoolOp(a) ==
  LET r == a.exc # "none" IN
  CASE a.pc = "acquire"     -> [a EXCEPT !.pc = IF r THEN "except" ELSE "cursor", !.op = "none"]
    [] a.pc = "release"     -> [a EXCEPT !.pc = IF r THEN "except" ELSE "done", !.op = "none"]
    [] a.pc = "sig_setup"   -> IF r THEN [a EXCEPT !.pc = "sig_ret", !.op = "none"]
                                    ELSE [a EXCEPT !.pc = "sig_acquire", !.op = "lock"]
    [] a.pc = "sig_acquire" -> [a EXCEPT !.pc = IF r THEN "sig_ret" ELSE "sig_cursor", !.op = "none"]
    [] a.pc = "sig_release" -> [a EXCEPT !.pc = "sig_ret", !.op = "none"]
    [] a.pc = "b_setup"     -> [a EXCEPT !.pc = IF r THEN "crashed" ELSE "b_bind", !.op = "none"]
    [] a.pc = "b_acquire"   -> [a EXCEPT !.pc = IF r THEN "crashed" ELSE "b_cursor", !.op = "none"]
    [] a.pc = "b_release"   -> [a EXCEPT !.pc = IF r THEN "crashed" ELSE "serve", !.op = "none"]

ReloadSites == {"b_setup", "sig_setup"}
AcquireSites == {"b_acquire", "sig_acquire", "acquire"}
ReleaseSites == {"b_release", "sig_release", "release"}

\* AGID.setup reads connection_pool_size and db_uri from the configuration;
\* the body of DBConnectionPool.reload runs and the lock is released
PoolReloadBody(self) ==
  LET a == Cur(self) IN
  /\ Runs(self) /\ a.op = "body" /\ a.pc \in ReloadSites
  /\ \E size \in 0..MaxSize, u \in Uris, k \in 0..MaxSize :
       /\ k <= size
       /\ db.opened + k <= MaxConn
       /\ k < size /\ db.opened + k < MaxConn => faults < MaxFaults /\ Budget
       /\ faults' = IF k < size /\ db.opened + k < MaxConn THEN faults + 1 ELSE faults
       /\ LET r == reload(pool, db, size, u, k) IN
          /\ pool' = r.pool /\ db' = r.db
          /\ Upd(self, AfterPoolOp([a EXCEPT
                         !.exc = IF r.ok THEN @ ELSE "other",
                         !.ev = IF r.ok THEN Append(@, Ev("pool_reload", "")) ELSE @]))
  /\ poolLock' = NoOwner
  /\ UNCHANGED <<rw, sigs, installed, server, scn, reg>>

\* the body of DBConnectionPool.acquire runs and the lock is released
PoolAcquireBody(self) ==
  LET a == Cur(self)
      can == pool.db_uri # "none" /\ db.opened < MaxConn IN
  /\ Runs(self) /\ a.op = "body" /\ a.pc \in AcquireSites
  /\ \E okc \in BOOLEAN :
       LET r == acquire(pool, db, okc) IN
       /\ Len(pool.conns) > 0 => okc
       /\ Len(pool.conns) = 0 /\ ~can => ~okc
       /\ IF Len(pool.conns) = 0 /\ can THEN MayFail(okc) ELSE faults' = faults
       /\ pool' = r.pool /\ db' = r.db
       /\ Upd(self, AfterPoolOp([a EXCEPT
                      !.conn = r.conn,
                      !.exc = IF r.ok THEN @ ELSE "other",
                      !.ev = IF r.ok THEN Append(@, Ev("acquire", "")) ELSE @]))
  /\ poolLock' = NoOwner
  /\ UNCHANGED <<rw, sigs, installed, server, scn, reg>>

\* the body of DBConnectionPool.release runs and the lock is released
PoolReleaseBody(self) ==
  LET a == Cur(self)
      r == release(pool, db, a.conn) IN
  /\ Runs(self) /\ a.op = "body" /\ a.pc \in ReleaseSites
  /\ pool' = r.pool /\ db' = r.db
  /\ Upd(self, AfterPoolOp([a EXCEPT !.conn = NoConn, !.ev = Append(@, Ev("release", ""))]))
  /\ poolLock' = NoOwner
  /\ UNCHANGED <<rw, sigs, installed, server, faults, scn, reg>>

\* ------------------------------------------------------------------------
\* moresynchro.RWLock, one per Handler (Handler.__init__, self.lock)
\* ------------------------------------------------------------------------
RWInit == [readers |-> {}, writer |-> NoOwner]
\* a reader waits only while a writer holds the lock
CanRead(l) == l.writer = NoOwner
acquire_read(l, t) == [l EXCEPT !.readers = @ \cup {t}]
\* a writer is granted the lock when it is idle
CanWrite(l) == l.writer = NoOwner /\ l.readers = {}
acquire_write(l, t) == [l EXCEPT !.writer = t]
\* the deadlock-avoidance refusal: always when the asking thread already holds
\* the lock, and possibly whenever readers are in the way
MustRefuse(l, t) == l.writer = t \/ t \in l.readers
MayRefuse(l, t) == MustRefuse(l, t) \/ l.readers # {}
rw_release(l, t) ==
  IF l.writer = t THEN [l EXCEPT !.writer = NoOwner]
                  ELSE [l EXCEPT !.readers = @ \ {t}]

\* one lock shared by all the handlers (a class attribute instead of the
\* instance attribute Handler.__init__ sets)
LockOf_Shared(h) == "h1"

\* the lock a handler's reload and handle use: each Handler has its own
LockOf(h) == h

\* ------------------------------------------------------------------------
\* FastAGIRequestHandler.handle, one activation per worker thread
\* ------------------------------------------------------------------------
Serving == Len(stk) = 1 /\ stk[1].pc = "serve" /\ ~stk[1].pend

\* serve_forever accepts a connection and starts a thread for it (threads are
\* interchangeable: they are started in index order); handle() begins with
\* fagi = fastagi.FastAGI(...), which reads the request header and may fail
Start(self) ==
  /\ wk[self].pc = "idle"
  /\ Serving
  /\ Budget
  /\ \A u \in Workers : u < self => wk[u].pc # "idle"
  /\ \E n \in Names, ok \in BOOLEAN :
       /\ ok \/ (faults < MaxFaults /\ Started + sigs + faults + 1 < MaxEvents)
       /\ faults' = IF ok THEN faults ELSE faults + 1
       /\ wk' = [wk EXCEPT ![self] =
                   IF ok THEN [@ EXCEPT !.pc = "acquire", !.op = "lock", !.name = n, !.fagi = TRUE]
                         ELSE [@ EXCEPT !.pc = "except", !.name = n, !.exc = "other"]]
  /\ UNCHANGED <<pool, db, poolLock, rw, stk, sigs, installed, server, scn, reg>>

\* the lookup done with a default: a name that is not registered runs no
\* handler and the request goes on to conn.commit()
Lookup_MissIgnored(self) ==
  LET a == wk[self] IN
  /\ a.pc = "cursor"
  /\ \E ok \in BOOLEAN :
       /\ MayFail(ok)
       /\ wk' = [wk EXCEPT ![self] =
                   IF ok /\ a.name \in Handlers
                     THEN [a EXCEPT !.pc = "acq_read", !.ev = Append(@, Ev("lookup", a.name))]
                     ELSE IF ok THEN [a EXCEPT !.pc = "commit"]
                     ELSE [a EXCEPT !.pc = "release", !.op = "lock", !.exc = "other"]]
  /\ UNCHANGED <<pool, db, poolLock, rw, stk, sigs, installed, server, scn, reg>>

\* cursor = conn.cursor(); handler_name = fagi.env['agi_network_script'];
\* _handlers[handler_name] (KeyError for a name that is not registered)
Lookup(self) ==
  LET a == wk[self] IN
  /\ a.pc = "cursor"
  /\ \E ok \in BOOLEAN :
       /\ MayFail(ok)
       /\ wk' = [wk EXCEPT ![self] =
                   IF ok /\ a.name \in Handlers
                     THEN [a EXCEPT !.pc = "acq_read", !.ev = Append(@, Ev("lookup", a.name))]
                     ELSE [a EXCEPT !.pc = "release", !.op = "lock", !.exc = "other"]]
  /\ UNCHANGED <<pool, db, poolLock, rw, stk, sigs, installed, server, scn, reg>>

\* Handler.handle without its acquire_read()
HandleAcquireRead_NoLock(self) ==
  LET a == wk[self] IN
  /\ a.pc = "acq_read"
  /\ wk' = [wk EXCEPT ![self] = [a EXCEPT !.pc = "handle_fn",
                                          !.ev = Append(@, Ev("acquire_read", a.name))]]
  /\ UNCHANGED <<pool, db, poolLock, rw, stk, sigs, installed, server, faults, scn, reg>>

\* Handler.handle: self.lock.acquire_read()
HandleAcquireRead(self) ==
  LET a == wk[self]
      l == LockOf(a.name) IN
  /\ a.pc = "acq_read"
  /\ CanRead(rw[l])
  /\ rw' = [rw EXCEPT ![l] = acquire_read(@, self)]
  /\ wk' = [wk EXCEPT ![self] = [a EXCEPT !.pc = "handle_fn",
                                          !.ev = Append(@, Ev("acquire_read", a.name))]]
  /\ UNCHANGED <<pool, db, poolLock, stk, sigs, installed, server, faults, scn, reg>>

\* Handler.handle: with session_scope(): self.handle_fn(agi, cursor, args);
\* it returns, raises FastAGIDialPlanBreak, or raises something else
HandleFn(self) ==
  LET a == wk[self] IN
  /\ a.pc = "handle_fn"
  /\ \E r \in {"none", "break", "other"} :
       /\ MayFail(r = "none")
       /\ wk' = [wk EXCEPT ![self] = [a EXCEPT !.pc = "rel_read", !.exc = r,
                                               !.ev = Append(@, Ev("handle", a.name))]]
  /\ UNCHANGED <<pool, db, poolLock, rw, stk, sigs, installed, server, scn, reg>>

\* Handler.handle: finally: self.lock.release()
HandleRelease(self) ==
  LET a == wk[self]
      l == LockOf(a.name)
      b == [a EXCEPT !.ev = Append(@, Ev("release_read", a.name))] IN
  /\ a.pc = "rel_read"
  /\ rw' = [rw EXCEPT ![l] = rw_release(@, self)]
  /\ wk' = [wk EXCEPT ![self] =
              IF a.exc = "none" THEN [b EXCEPT !.pc = "commit"]
                                ELSE [b EXCEPT !.pc = "release", !.op = "lock"]]
  /\ UNCHANGED <<pool, db, poolLock, stk, sigs, installed, server, faults, scn, reg>>

\* handle() with the acknowledgement written before conn.commit()
Commit_AfterAck(self) ==
  LET a == wk[self] IN
  /\ a.pc = "commit"
  /\ wk' = [wk EXCEPT ![self] = [a EXCEPT !.pc = "release", !.op = "lock",
                                          !.ev = @ \o <<Ev("ack", ""), Ev("commit", "")>>]]
  /\ UNCHANGED <<pool, db, poolLock, rw, stk, sigs, installed, server, faults, scn, reg>>

\* conn.commit()
Commit(self) ==
  LET a == wk[self] IN
  /\ a.pc = "commit"
  /\ \E ok \in BOOLEAN :
       /\ MayFail(ok)
       /\ wk' = [wk EXCEPT ![self] =
                   IF ok THEN [a EXCEPT !.pc = "verbose", !.ev = Append(@, Ev("commit", ""))]
                         ELSE [a EXCEPT !.pc = "release", !.op = "lock", !.exc = "other"]]
  /\ UNCHANGED <<pool, db, poolLock, rw, stk, sigs, installed, server, scn, reg>>

\* fagi.verbose('AGI handler %r successfully executed'): writing to the
\* caller may fail; either way the finally clause releases the connection next
Verbose(self) ==
  LET a == wk[self] IN
  /\ a.pc = "verbose"
  /\ \E ok \in BOOLEAN :
       /\ MayFail(ok)
       /\ wk' = [wk EXCEPT ![self] =
                   IF ok THEN [a EXCEPT !.pc = "release", !.op = "lock", !.ev = Append(@, Ev("ack", ""))]
                         ELSE [a EXCEPT !.pc = "release", !.op = "lock", !.exc = "other"]]
  /\ UNCHANGED <<pool, db, poolLock, rw, stk, sigs, installed, server, scn, reg>>

\* the except clauses: fagi.verbose(message) or except_hook.handle(), then
\* fagi.appexec('Goto', 'agi_fail,s,1') and fagi.fail(); whatever they raise
\* is swallowed. When FastAGI(...) itself raised, fagi and except_hook are
\* unbound: the first statement of the clause raises UnboundLocalError, which
\* is swallowed too, and no signalling call is made.
Except(self) ==
  LET a == wk[self] IN
  /\ a.pc = "except"
  /\ \E sent \in BOOLEAN :
       /\ sent => a.fagi
       /\ wk' = [wk EXCEPT ![self] =
                   [a EXCEPT !.pc = "done",
                             !.ev = IF ~a.fagi THEN Append(@, Ev("unbound", ""))
                                    ELSE IF sent THEN @ \o <<Ev("fail_attempt", ""), Ev("fail_sent", "")>>
                                    ELSE Append(@, Ev("fail_attempt", ""))]]
  /\ UNCHANGED <<pool, db, poolLock, rw, stk, sigs, installed, server, faults, scn, reg>>

\* handle() has returned: the request thread ends and its activation is gone
Exit(self) ==
  /\ wk[self].pc = "done"
  /\ wk' = [wk EXCEPT ![self] = Act("gone", "none")]
  /\ UNCHANGED <<pool, db, poolLock, rw, stk, sigs, installed, server, faults, scn, reg>>

\* ------------------------------------------------------------------------
\* the main thread: init(config) and run(), then serve_forever
\* ------------------------------------------------------------------------
Boot(pc) == Len(stk) = 1 /\ stk[1].pc = pc /\ ~stk[1].pend /\ stk[1].op = "none"
SetBoot(a) == stk' = <<a>>

\* AGID.__init__: signal.signal(signal.SIGHUP, sighup_handle)
BootSignal ==
  /\ Boot("b_signal")
  /\ installed' = TRUE
  /\ SetBoot([Top EXCEPT !.pc = "b_pool"])
  /\ UNCHANGED <<pool, db, poolLock, rw, wk, sigs, server, faults, scn, reg>>

\* AGID.__init__: self.db_conn_pool = DBConnectionPool(); self.setup()
BootPool ==
  /\ Boot("b_pool")
  /\ pool' = PoolInit
  /\ SetBoot([Top EXCEPT !.pc = "b_setup", !.op = "lock"])
  /\ UNCHANGED <<db, poolLock, rw, wk, sigs, installed, server, faults, scn, reg>>

\* AGID.__init__: ThreadingTCPServer.__init__ binds the socket (it may fail);
\* self.initialized = True
BootBind ==
  /\ Boot("b_bind")
  /\ \E ok \in BOOLEAN :
       /\ MayFail(ok)
       /\ SetBoot([Top EXCEPT !.pc = IF ok THEN "b_server" ELSE "crashed",
                              !.exc = IF ok THEN "none" ELSE "other"])
  /\ UNCHANGED <<pool, db, poolLock, rw, wk, sigs, installed, server, scn, reg>>

\* init: _server = AGID(config); then run() starts with an acquire
BootServer ==
  /\ Boot("b_server")
  /\ server' = TRUE
  /\ SetBoot([Top EXCEPT !.pc = "b_acquire", !.op = "lock"])
  /\ UNCHANGED <<pool, db, poolLock, rw, wk, sigs, installed, faults, scn, reg>>

\* run: cursor = conn.cursor()
BootCursor ==
  /\ Boot("b_cursor")
  /\ \E ok \in BOOLEAN :
       /\ MayFail(ok)
       /\ SetBoot(IF ok THEN [Top EXCEPT !.pc = "b_loop", !.i = 1]
                        ELSE [Top EXCEPT !.pc = "b_release", !.op = "lock", !.exc = "other"])
  /\ UNCHANGED <<pool, db, poolLock, rw, wk, sigs, installed, server, scn, reg>>

\* run: for handler in _handlers.itervalues(): handler.setup(cursor)
\* Handler.setup: if self.setup_fn: (no lock is taken)
BootLoop ==
  /\ Boot("b_loop")
  /\ Top.i <= Len(HandlerOrder)
  /\ SetBoot(IF HandlerOrder[Top.i] \in SetupFn THEN [Top EXCEPT !.pc = "b_setupfn"]
                                                ELSE [Top EXCEPT !.i = @ + 1])
  /\ UNCHANGED <<pool, db, poolLock, rw, wk, sigs, installed, server, faults, scn, reg>>

\* Handler.setup: self.setup_fn(cursor) returns or raises
BootSetupFn ==
  /\ Boot("b_setupfn")
  /\ \E ok \in BOOLEAN :
       /\ MayFail(ok)
       /\ SetBoot(IF ok THEN [Top EXCEPT !.pc = "b_loop", !.i = @ + 1,
                                         !.ev = Append(@, Ev("setup", HandlerOrder[Top.i]))]
                        ELSE [Top EXCEPT !.pc = "b_release", !.op = "lock", !.exc = "other",
                                         !.ev = Append(@, Ev("setup_raised", HandlerOrder[Top.i]))])
  /\ UNCHANGED <<pool, db, poolLock, rw, wk, sigs, installed, server, scn, reg>>

\* run: the loop is over: conn.commit()
BootCommit ==
  /\ Boot("b_loop") /\ Top.i > Len(HandlerOrder)
  /\ \E ok \in BOOLEAN :
       /\ MayFail(ok)
       /\ SetBoot(IF ok THEN [Top EXCEPT !.pc = "b_release", !.op = "lock", !.i = 0,
                                         !.ev = Append(@, Ev("commit", ""))]
                        ELSE [Top EXCEPT !.pc = "b_release", !.op = "lock", !.i = 0,
                                         !.exc = "other"])
  /\ UNCHANGED <<pool, db, poolLock, rw, wk, sigs, installed, server, scn, reg>>

\* ------------------------------------------------------------------------
\* sighup_handle, run by the main thread on top of what it was executing
\* ------------------------------------------------------------------------
Sig(pc) == Len(stk) > 1 /\ Top.pc = pc /\ ~Top.pend /\ Top.op = "none"
SetTop(a) == stk' = [stk EXCEPT ![Len(stk)] = a]

\* SIGHUP is delivered: the interpreter calls sighup_handle between two
\* bytecodes of the main thread, wherever that thread is
Signal ==
  /\ installed
  /\ sigs < MaxSignals
  /\ Budget
  /\ Len(stk) > 0 /\ stk[1].pc # "crashed" /\ ~Top.pend
  /\ sigs' = sigs + 1
  \* sighup_handle: _server.setup() (AttributeError while _server is None)
  /\ stk' = Append(stk, IF server THEN Act("sig_setup", "lock")
                                   ELSE [Act("sig_ret", "none") EXCEPT !.exc = "other"])
  /\ UNCHANGED <<pool, db, poolLock, rw, wk, installed, server, faults, scn, reg>>

\* sighup_handle: cursor = conn.cursor()
SigCursor ==
  /\ Sig("sig_cursor")
  /\ \E ok \in BOOLEAN :
       /\ MayFail(ok)
       /\ SetTop(IF ok THEN [Top EXCEPT !.pc = "sig_loop", !.i = 1]
                       ELSE [Top EXCEPT !.pc = "sig_release", !.op = "lock", !.exc = "other"])
  /\ UNCHANGED <<pool, db, poolLock, rw, wk, sigs, installed, server, scn, reg>>

\* Handler.reload that takes the write lock before looking at setup_fn
ReloadNoSetup_Locks ==
  /\ Sig("sig_loop") /\ Top.i <= Len(HandlerOrder)
  /\ LET h == HandlerOrder[Top.i]
         l == LockOf(h) IN
     /\ h \notin SetupFn
     /\ CanWrite(rw[l])
     /\ rw' = [rw EXCEPT ![l] = acquire_write(@, Main)]
     /\ SetTop([Top EXCEPT !.pc = "sig_relw", !.ev = Append(@, Ev("reload", h))])
  /\ UNCHANGED <<pool, db, poolLock, wk, sigs, installed, server, faults, scn, reg>>

\* Handler.reload of a handler without setup_fn: nothing happens
ReloadNoSetup ==
  /\ Sig("sig_loop") /\ Top.i <= Len(HandlerOrder)
  /\ HandlerOrder[Top.i] \notin SetupFn
  /\ SetTop([Top EXCEPT !.i = @ + 1, !.ev = Append(@, Ev("reload", HandlerOrder[Top.i]))])
  /\ UNCHANGED <<pool, db, poolLock, rw, wk, sigs, installed, server, faults, scn, reg>>

\* Handler.reload: self.lock.acquire_write() granted
ReloadAcquireWrite ==
  /\ Sig("sig_loop") /\ Top.i <= Len(HandlerOrder)
  /\ LET h == HandlerOrder[Top.i]
         l == LockOf(h) IN
     /\ h \in SetupFn
     /\ CanWrite(rw[l])
     /\ rw' = [rw EXCEPT ![l] = acquire_write(@, Main)]
     /\ SetTop([Top EXCEPT !.pc = "sig_setupfn", !.ev = Append(@, Ev("reload", h))])
  /\ UNCHANGED <<pool, db, poolLock, wk, sigs, installed, server, faults, scn, reg>>

\* Handler.reload that logs the refusal and then runs the setup routine anyway
ReloadRefused_StillSetsUp ==
  /\ Sig("sig_loop") /\ Top.i <= Len(HandlerOrder)
  /\ LET h == HandlerOrder[Top.i]
         l == LockOf(h) IN
     /\ h \in SetupFn
     /\ MayRefuse(rw[l], Main)
     /\ SetTop([Top EXCEPT !.pc = "sig_setupfn",
                           !.ev = @ \o <<Ev("reload", h), Ev("refused", h)>>])
  /\ UNCHANGED <<pool, db, poolLock, rw, wk, sigs, installed, server, faults, scn, reg>>

\* Handler.reload: acquire_write() refused: log the avoided deadlock, return
ReloadRefused ==
  /\ Sig("sig_loop") /\ Top.i <= Len(HandlerOrder)
  /\ LET h == HandlerOrder[Top.i]
         l == LockOf(h) IN
     /\ h \in SetupFn
     /\ MayRefuse(rw[l], Main)
     /\ SetTop([Top EXCEPT !.i = @ + 1, !.ev = @ \o <<Ev("reload", h), Ev("refused", h)>>])
  /\ UNCHANGED <<pool, db, poolLock, rw, wk, sigs, installed, server, faults, scn, reg>>

\* Handler.reload: self.setup_fn(cursor) returns or raises
ReloadSetupFn ==
  /\ Sig("sig_setupfn")
  /\ \E ok \in BOOLEAN :
       /\ MayFail(ok)
       /\ SetTop([Top EXCEPT !.pc = "sig_relw", !.exc = IF ok THEN "none" ELSE "other",
                             !.ev = Append(@, Ev(IF ok THEN "setup" ELSE "setup_raised",
                                                 HandlerOrder[Top.i]))])
  /\ UNCHANGED <<pool, db, poolLock, rw, wk, sigs, installed, server, scn, reg>>

\* Handler.reload: finally: self.lock.release(); an exception then leaves
\* the loop of sighup_handle for its finally clause
ReloadRelease ==
  /\ Sig("sig_relw")
  /\ LET l == LockOf(HandlerOrder[Top.i]) IN
     rw' = [rw EXCEPT ![l] = rw_release(@, Main)]
  /\ SetTop(IF Top.exc = "none" THEN [Top EXCEPT !.pc = "sig_loop", !.i = @ + 1]
                                ELSE [Top EXCEPT !.pc = "sig_release", !.op = "lock"])
  /\ UNCHANGED <<pool, db, poolLock, wk, sigs, installed, server, faults, scn, reg>>

\* sighup_handle: the loop over _handlers.itervalues() is over: conn.commit()
SigCommit ==
  /\ Sig("sig_loop") /\ Top.i > Len(HandlerOrder)
  /\ \E ok \in BOOLEAN :
       /\ MayFail(ok)
       /\ SetTop(IF ok THEN [Top EXCEPT !.pc = "sig_release", !.op = "lock", !.i = 0,
                                        !.ev = Append(@, Ev("commit", ""))]
                       ELSE [Top EXCEPT !.pc = "sig_release", !.op = "lock", !.i = 0,
                                        !.exc = "other"])
  /\ UNCHANGED <<pool, db, poolLock, rw, wk, sigs, installed, server, scn, reg>>

\* sighup_handle returns, or ends with an exception that is then raised in
\* the code the signal interrupted
SigReturn ==
  /\ Sig("sig_ret")
  /\ LET n == Len(stk) - 1 IN
     stk' = IF Top.exc = "none" THEN SubSeq(stk, 1, n)
            ELSE [SubSeq(stk, 1, n) EXCEPT ![n] = [@ EXCEPT !.pend = TRUE]]
  /\ UNCHANGED <<pool, db, poolLock, rw, wk, sigs, installed, server, faults, scn, reg>>

\* where an exception raised at a.pc takes the activation: to the enclosing
\* finally clause, or out of the function
Raised(a) ==
  LET b == [a EXCEPT !.pend = FALSE, !.exc = "other"] IN
  CASE a.pc \in {"b_cursor", "b_loop", "b_setupfn"}
         -> [b EXCEPT !.pc = "b_release", !.op = "lock"]
    [] a.pc \in {"sig_cursor", "sig_loop", "sig_relw"}
         -> [b EXCEPT !.pc = "sig_release", !.op = "lock"]
    [] a.pc = "sig_setupfn" -> [b EXCEPT !.pc = "sig_relw"]
    [] a.pc \in {"sig_setup", "sig_acquire", "sig_release", "sig_ret"}
         -> [b EXCEPT !.pc = "sig_ret", !.op = "none"]
    [] OTHER -> [b EXCEPT !.pc = "crashed", !.op = "none"]

\* the exception a nested sighup_handle ended with is raised in the
\* interrupted activation; a `with self.lock:` it was inside releases the lock
Unwind ==
  /\ Len(stk) > 0 /\ Top.pend
  /\ poolLock' = IF Top.op = "body" THEN NoOwner ELSE poolLock
  /\ SetTop(Raised(Top))
  /\ UNCHANGED <<pool, db, rw, wk, sigs, installed, server, faults, scn, reg>>

\* ------------------------------------------------------------------------
Init ==
  /\ pool = PoolInit
  /\ db = DbInit
  /\ poolLock = NoOwner
  /\ rw = [h \in Handlers |-> RWInit]
  /\ stk = <<Act("b_signal", "none")>>
  /\ wk = [w \in Workers |-> Act("idle", "none")]
  /\ sigs = 0
  /\ installed = FALSE
  /\ server = FALSE
  /\ faults = 0
  /\ scn = <<>>
  /\ reg = <<>>

MainStep ==
  \/ BootSignal \/ BootPool \/ BootBind \/ BootServer \/ BootCursor
  \/ BootLoop \/ BootSetupFn \/ BootCommit
  \/ Signal \/ SigCursor \/ ReloadNoSetup
  \/ ReloadAcquireWrite \/ ReloadRefused \/ ReloadSetupFn \/ ReloadRelease
  \/ SigCommit \/ SigReturn \/ Unwind

WorkerStep(self) ==
  \/ Start(self) \/ Lookup(self)
  \/ HandleAcquireRead(self) \/ HandleFn(self) \/ HandleRelease(self)
  \/ Commit(self) \/ Verbose(self) \/ Except(self)

PoolStep(self) ==
  \/ PoolLock(self)
  \/ PoolReloadBody(self) \/ PoolAcquireBody(self) \/ PoolReleaseBody(self)

\* a thread whose handle() has returned ends before anything else happens
Quiet == \A w \in Workers : wk[w].pc # "done"

Next ==
  \/ \E self \in Workers : Exit(self)
  \/ Quiet /\ MainStep
  \/ Quiet /\ \E self \in Workers : WorkerStep(self)
  \/ Quiet /\ \E self \in Threads : PoolStep(self)

Spec == Init /\ [][Next]_vars

\* ------------------------------------------------------------------------
\* One caller using the pool alone: reload(N, uri), N + 1 acquire() calls,
\* then the N + 1 connections released in any order; no connect fails
\* ------------------------------------------------------------------------
ScnStart == [pc |-> "fresh", n |-> 0, made |-> {}, got |-> <<>>, rel |-> <<>>]
ScnUnchanged == UNCHANGED <<poolLock, rw, stk, wk, sigs, installed, server, faults, reg>>

\* the pool was used before: an earlier reload left a reserve behind
ScnEarlier ==
  /\ scn.pc = "fresh"
  /\ \E m \in 0..ScnMaxN, u \in Uris :
       LET r == reload(pool, db, m, u, m) IN
       pool' = r.pool /\ db' = r.db
  /\ scn' = [scn EXCEPT !.pc = "used"]
  /\ ScnUnchanged

ScnReload ==
  /\ scn.pc \in {"fresh", "used"}
  /\ \E n \in 0..ScnMaxN, u \in Uris :
       LET r == reload(pool, db, n, u, n) IN
       /\ pool' = r.pool /\ db' = r.db
       /\ scn' = [scn EXCEPT !.pc = "acquire", !.n = n, !.made = Range(r.pool.conns)]
  /\ ScnUnchanged

ScnAcquire ==
  /\ scn.pc = "acquire"
  /\ LET r == acquire(pool, db, TRUE) IN
     /\ pool' = r.pool /\ db' = r.db
     /\ scn' = [scn EXCEPT !.got = Append(@, r.conn),
                           !.pc = IF Len(scn.got) = scn.n THEN "release" ELSE "acquire"]
  /\ ScnUnchanged

ScnRelease ==
  /\ scn.pc = "release"
  /\ \E c \in Range(scn.got) \ Range(scn.rel) :
       LET r == release(pool, db, c) IN
       /\ pool' = r.pool /\ db' = r.db
       /\ scn' = [scn EXCEPT !.rel = Append(@, c),
                             !.pc = IF Len(scn.rel) = scn.n THEN "end" ELSE "release"]
  /\ ScnUnchanged

ScnInit ==
  /\ pool = PoolInit /\ db = DbInit /\ poolLock = NoOwner
  /\ rw = [h \in Handlers |-> RWInit]
  /\ stk = <<>>
  /\ wk = [w \in Workers |-> Act("idle", "none")]
  /\ sigs = 0 /\ installed = FALSE /\ server = FALSE /\ faults = 0
  /\ scn = ScnStart
  /\ reg = <<>>

ScnNext == ScnEarlier \/ ScnReload \/ ScnAcquire \/ ScnRelease

SpecPool == ScnInit /\ [][ScnNext]_vars

\* ------------------------------------------------------------------------
\* register(handle_fn, setup_fn=None), called by the handler modules
\* ------------------------------------------------------------------------
\* handle routines: function objects; two of them can have the same __name__
HandleFns == [name : {"h1", "h2"}, id : {1, 2}]
\* setup_fn arguments: None or a setup routine
SetupArgs == {"None", "s1"}

\* Handler.__init__; the RWLock it creates is identified by the call that made it
Handler(handler_name, setup_fn, handle_fn, lock) ==
  [handler_name |-> handler_name, setup_fn |-> setup_fn, handle_fn |-> handle_fn,
   lock |-> lock]

\* register that stores the new Handler without looking for the name first
register_Overwrite(handlers, handle_fn, setup_fn, lock) ==
  LET handler_name == handle_fn.name IN
  [handlers |-> [n \in DOMAIN handlers \cup {handler_name} |->
                   IF n = handler_name THEN Handler(handler_name, setup_fn, handle_fn, lock)
                                       ELSE handlers[n]],
   ok |-> TRUE]

\* register: ok is FALSE when it raises ValueError
register(handlers, handle_fn, setup_fn, lock) ==
  LET handler_name == handle_fn.name IN
  IF handler_name \in DOMAIN handlers
    THEN [handlers |-> handlers, ok |-> FALSE]
    ELSE [handlers |-> [n \in DOMAIN handlers \cup {handler_name} |->
                          IF n = handler_name THEN Handler(handler_name, setup_fn, handle_fn, lock)
                                              ELSE handlers[n]],
          ok |-> TRUE]

RegStart == [handlers |-> <<>>, calls |-> <<>>]

Register ==
  /\ Len(reg.calls) < MaxRegs
  /\ \E f \in HandleFns, sf \in SetupArgs :
       LET r == register(reg.handlers, f, sf, Len(reg.calls) + 1) IN
       reg' = [handlers |-> r.handlers,
               calls |-> Append(reg.calls, [handle_fn |-> f, setup_fn |-> sf, ok |-> r.ok])]
  /\ UNCHANGED <<pool, db, poolLock, rw, stk, wk, sigs, installed, server, faults, scn>>

RegInit ==
  /\ pool = PoolInit /\ db = DbInit /\ poolLock = NoOwner
  /\ rw = [h \in Handlers |-> RWInit]
  /\ stk = <<>>
  /\ wk = [w \in Workers |-> Act("idle", "none")]
  /\ sigs = 0 /\ installed = FALSE /\ server = FALSE /\ faults = 0
  /\ scn = <<>>
  /\ reg = RegStart

SpecRegister == RegInit /\ [][Register]_vars

\* ------------------------------------------------------------------------
\* Properties
\* ------------------------------------------------------------------------
Kinds(ev) == [j \in 1..Len(ev) |-> ev[j][1]]
Count(ev, e) == Cardinality({j \in 1..Len(ev) : ev[j][1] = e})
Frames == 1..Len(stk)
SigFrames == 2..Len(stk)
\* the setup routine of h is executing, called by Handler.reload / by Handler.setup
ReloadSetupRunning(h) ==
  \E j \in SigFrames : stk[j].pc = "sig_setupfn" /\ HandlerOrder[stk[j].i] = h
BootSetupRunning(h) ==
  \E j \in Frames : stk[j].pc = "b_setupfn" /\ HandlerOrder[stk[j].i] = h
\* the handle routine of h is executing in thread w
HandleRunning(w, h) == wk[w].pc = "handle_fn" /\ wk[w].name = h

\* how many times the event e of handler h is in the trace ev
CountOf(ev, e, h) == Cardinality({j \in 1..Len(ev) : ev[j] = Ev(e, h)})
\* the positions of the events of kind e in the trace ev
Places(ev, e) == {j \in 1..Len(ev) : ev[j][1] = e}

\* C11: a finished reload pass that borrowed its connection reloaded the pool
\* first, borrowed exactly one connection and released it exactly once; once
\* it has entered the loop over the registry, the setup routine of every
\* handler that has one (and whose write access was not refused) ran exactly
\* once, after the borrow and before the release; it committed at most once,
\* after every setup, and exactly once when the pass ended without an error.
C11_ReloadPassOrder ==
  \A j \in SigFrames :
    LET ev == stk[j].ev
        ran(h) == CountOf(ev, "setup", h) + CountOf(ev, "setup_raised", h) IN
    (stk[j].pc = "sig_ret" /\ Count(ev, "acquire") > 0) =>
      /\ ev[1] = Ev("pool_reload", "") /\ ev[2] = Ev("acquire", "")
      /\ Count(ev, "acquire") = 1 /\ Count(ev, "release") = 1
      /\ ev[Len(ev)] = Ev("release", "")
      /\ Count(ev, "commit") <= 1
      /\ \A c \in Places(ev, "commit") : \A q \in Places(ev, "setup") : q < c
      /\ stk[j].exc = "none" => Count(ev, "commit") = 1
      /\ Count(ev, "reload") > 0 =>
           \A h \in SetupFn : CountOf(ev, "refused", h) = 0 => ran(h) = 1

\* the step is Handler.reload of h being refused write access
RefusalStep(h) ==
  /\ Len(stk) > 1 /\ Len(stk') = Len(stk)
  /\ stk'[Len(stk')].ev = Top.ev \o <<Ev("reload", h), Ev("refused", h)>>

\* C12: when acquire_write is refused for handler h, the setup routine of h
\* is not invoked in that pass, the locks are left as they were, no error is
\* raised by the refusal and the pass goes on with the next handler; a pass
\* with a refusal that ended without an error has visited every handler,
\* committed once and released its connection once.
C12_RefusalSkipsOnlyThatHandler ==
  /\ [](\A j \in SigFrames, h \in SetupFn :
          LET ev == stk[j].ev IN
          CountOf(ev, "refused", h) > 0 =>
            /\ CountOf(ev, "setup", h) + CountOf(ev, "setup_raised", h) = 0
            /\ ~(stk[j].pc \in {"sig_setupfn", "sig_relw"} /\ HandlerOrder[stk[j].i] = h)
            /\ (stk[j].pc = "sig_ret" /\ stk[j].exc = "none") =>
                 /\ \A g \in Handlers : CountOf(ev, "reload", g) = 1
                 /\ Count(ev, "commit") = 1
                 /\ Count(ev, "release") = 1)
  /\ [][\A h \in SetupFn : RefusalStep(h) =>
          LET a == stk'[Len(stk')] IN
          /\ rw' = rw
          /\ a.pc = "sig_loop" /\ a.i = Top.i + 1
          /\ a.exc = Top.exc /\ ~a.pend]_vars

\* a pass in which h1 was refused went on to run the setup routine of h2,
\* committed and ended without an error
C12_Witness ==
  \E j \in SigFrames :
    /\ stk[j].pc = "sig_ret" /\ stk[j].exc = "none"
    /\ CountOf(stk[j].ev, "refused", "h1") = 1
    /\ CountOf(stk[j].ev, "setup", "h2") = 1
    /\ Count(stk[j].ev, "commit") = 1 /\ Count(stk[j].ev, "release") = 1

\* C13: no failure crosses the connection boundary: a request that failed
\* (at decoding, acquire, lookup, handler logic, commit or acknowledgement)
\* ends with handle() returning, after the failure signalling was attempted
\* on the caller's connection, with no connection still borrowed and no read
\* access still held by its thread.
C13_FailuresSignalled ==
  \A w \in Workers :
    wk[w].pc = "done" =>
      /\ wk[w].conn = NoConn
      /\ \A h \in Handlers : w \notin rw[h].readers
      /\ wk[w].exc # "none" => Count(wk[w].ev, "fail_attempt") > 0

\* C14: a request whose header names a handler that is not registered never
\* enters a handler (no read access, no handle routine) and never commits;
\* once it has borrowed its connection it ends on the unexpected-failure
\* path: the connection is released once, then the fail-command sequence is
\* attempted.
C14_GhostHandler ==
  \A w \in Workers :
    LET a == wk[w] IN
    (a.name \notin Handlers /\ a.pc \notin {"idle", "gone"}) =>
      /\ a.pc \notin {"acq_read", "handle_fn", "rel_read", "commit", "verbose"}
      /\ \A h \in Handlers : w \notin rw[h].readers
      /\ Count(a.ev, "acquire_read") + Count(a.ev, "handle") + Count(a.ev, "commit") = 0
      /\ (a.pc = "done" /\ Count(a.ev, "acquire") > 0) =>
           /\ a.exc = "other" /\ a.conn = NoConn
           /\ Count(a.ev, "release") = 1 /\ Count(a.ev, "fail_attempt") = 1
           /\ \A r \in Places(a.ev, "release"), f \in Places(a.ev, "fail_attempt") : r < f

\* a request for an unregistered name has finished: it had borrowed a
\* connection and the fail-command sequence went out
C14_Witness ==
  \E w \in Workers :
    /\ wk[w].pc = "done" /\ wk[w].name \notin Handlers
    /\ Count(wk[w].ev, "acquire") = 1 /\ Count(wk[w].ev, "fail_sent") = 1

\* the first register call made for the name of call j
FirstCall(j) ==
  CHOOSE k \in 1..j :
    /\ reg.calls[k].handle_fn.name = reg.calls[j].handle_fn.name
    /\ \A m \in 1..(k - 1) : reg.calls[m].handle_fn.name # reg.calls[j].handle_fn.name

\* C15: handler names are unique in the registry: a register call fails
\* exactly when the name of its handle routine is already registered, and
\* after any sequence of calls each name maps to the Handler (handle routine,
\* setup routine, lock) created by the first call made for that name.
C15_RegisterKeepsFirst ==
  /\ DOMAIN reg.handlers = {reg.calls[j].handle_fn.name : j \in 1..Len(reg.calls)}
  /\ \A j \in 1..Len(reg.calls) :
       LET c == reg.calls[j]
           k == FirstCall(j) IN
       /\ c.ok = (k = j)
       /\ reg.handlers[c.handle_fn.name] =
            Handler(c.handle_fn.name, reg.calls[k].setup_fn, reg.calls[k].handle_fn, k)

\* a name was registered, then registered again with another handle routine
\* and another setup routine, and that call failed
C15_Witness ==
  \E j \in 1..Len(reg.calls) :
    /\ ~reg.calls[j].ok
    /\ reg.calls[j].handle_fn # reg.calls[FirstCall(j)].handle_fn
    /\ reg.calls[j].setup_fn # reg.calls[FirstCall(j)].setup_fn

\* C1: a reload never deadlocks: sighup_handle is never left waiting for the
\* pool's lock while that lock is held by the code the signal interrupted
\* (code of the same thread, which cannot run before sighup_handle returns).
C1_ReloadNeverDeadlocks ==
  ~(Len(stk) > 1 /\ Top.op = "lock" /\ ~Top.pend /\ poolLock = Main)

\* C2: reload failures are isolated: when a reload pass is over and the setup
\* routine of a handler A raised in it, Handler.reload was still called for
\* every other handler B that has a setup routine.
C2_ReloadFailuresIsolated ==
  \A j \in SigFrames : stk[j].pc = "sig_ret" =>
    \A A \in SetupFn : Ev("setup_raised", A) \in Range(stk[j].ev) =>
      \A B \in SetupFn \ {A} : Ev("reload", B) \in Range(stk[j].ev)

\* C3: a finished request that selected a registered handler and was given a
\* connection borrowed exactly one connection and released it exactly once; if
\* it succeeded it committed exactly once, and if the failure signalling was
\* attempted it committed zero times.
C3_OneBorrowOneCommit ==
  \A w \in Workers :
    LET a == wk[w] IN
    (a.pc = "done" /\ a.name \in Handlers /\ Count(a.ev, "acquire") > 0) =>
      /\ Count(a.ev, "acquire") = 1
      /\ Count(a.ev, "release") = 1
      /\ a.exc = "none" => Count(a.ev, "commit") = 1
      /\ Count(a.ev, "fail_attempt") > 0 => Count(a.ev, "commit") = 0

\* C4: the setup routine of a handler, run by Handler.reload, never executes
\* while a handle routine of the same handler executes: from the moment the
\* reload holds the handler (until it releases it) no request is inside
\* Handler.handle's locked region of that handler.
C4_ReloadExcludesRequests ==
  \A j \in SigFrames : stk[j].pc \in {"sig_setupfn", "sig_relw"} =>
    \A w \in Workers :
      ~(wk[w].pc \in {"handle_fn", "rel_read"} /\ wk[w].name = HandlerOrder[stk[j].i])

\* a reload is running the setup routine of a handler while a request for
\* that handler waits in acquire_read
C4_Witness ==
  \E h \in Handlers, w \in Workers :
    ReloadSetupRunning(h) /\ wk[w].pc = "acq_read" /\ wk[w].name = h

\* C5: every execution of a setup routine (by Handler.reload and by the
\* bootstrap's Handler.setup) happens with the handler's lock held in write
\* mode, and every execution of a handle routine with the lock held in read
\* mode by the executing thread.
C5_SetupUnderWriteLock ==
  /\ \A h \in Handlers :
       (ReloadSetupRunning(h) \/ BootSetupRunning(h)) => rw[h].writer = Main
  /\ \A w \in Workers, h \in Handlers : HandleRunning(w, h) => w \in rw[h].readers

\* the step is thread t running the body of DBConnectionPool.release
ReleaseStep(t) ==
  /\ (t = Main => Len(stk) > 0)
  /\ Cur(t).op = "body" /\ Cur(t).pc \in ReleaseSites /\ ~Cur(t).pend
  /\ poolLock = t /\ poolLock' = NoOwner

\* C6: the reserve never holds more connections than the configured size, and
\* a connection released when the reserve already holds `size` connections is
\* closed and not put in the reserve.
C6_ReserveBounded ==
  /\ Len(pool.conns) <= pool.size
  /\ [][ /\ Len(pool'.conns) <= pool'.size
         /\ \A t \in Threads :
              (ReleaseStep(t) /\ Len(pool.conns) >= pool.size) =>
                 /\ Cur(t).conn \in db'.closed
                 /\ pool'.conns = pool.conns ]_vars

\* no signal was delivered and no call raised, so only release has closed
\* a connection: it did so with a reserve that was full and not of size 0
C6_Witness ==
  /\ sigs = 0 /\ faults = 0
  /\ db.closed # {}
  /\ pool.size > 0 /\ Len(pool.conns) = pool.size

\* C7: a connection that was borrowed when reload replaced the reserve is
\* never put back in the reserve (it is closed when released): the reserve
\* only holds connections opened by the last reload or after it.
C7_StaleNeverCached ==
  \A j \in 1..Len(pool.conns) : pool.conns[j] > db.before

\* the request thread t has started, has not finished, and cannot take a step
Blocked(t) ==
  /\ wk[t].pc \notin {"idle", "done", "gone"}
  /\ ~ENABLED (WorkerStep(t) \/ PoolStep(t))

\* C9 (as claimed): a request is only ever blocked on its own handler's lock
\* being held exclusively.
C9_OnlyOwnHandlerLock ==
  \A t \in Workers :
    Blocked(t) => wk[t].pc = "acq_read" /\ rw[wk[t].name].writer # NoOwner

\* C9 (amended): a request never waits on another handler's lock: it is only
\* ever blocked on its own handler's lock being held exclusively, or on the
\* pool's lock while another thread is inside acquire, release or reload.
C9_OwnHandlerLockOrPoolLock ==
  \A t \in Workers :
    Blocked(t) =>
      \/ wk[t].pc = "acq_read" /\ rw[wk[t].name].writer # NoOwner
      \/ wk[t].op = "lock" /\ poolLock \notin {NoOwner, t}

\* two requests for different handlers are about to enter their handlers,
\* neither is blocked, while a reload runs the setup routine of a third
C9_Witness ==
  \E a \in Workers, b \in Workers, h \in Handlers :
    /\ a # b /\ wk[a].name # wk[b].name
    /\ wk[a].pc = "acq_read" /\ wk[b].pc = "acq_read"
    /\ h \notin {wk[a].name, wk[b].name}
    /\ ReloadSetupRunning(h)
    /\ ~Blocked(a) /\ ~Blocked(b)

\* C8: after reload(N, uri), the first N acquire() calls return N distinct
\* connections of the reserve that reload built; the next acquire() is not made
\* to wait and returns a connection opened for it, distinct from the first N;
\* once the N + 1 connections are released, exactly N are in the reserve and
\* the last one released is closed.
C8_ElasticPool ==
  LET got == scn.got
      rel == scn.rel IN
  /\ \A j \in 1..Len(got), k \in 1..Len(got) : j # k => got[j] # got[k]
  /\ \A j \in 1..Len(got) :
       /\ got[j] # NoConn
       /\ j <= scn.n => got[j] \in scn.made
       /\ j = scn.n + 1 => got[j] \notin scn.made /\ got[j] = db.opened
  /\ scn.pc = "acquire" => ENABLED ScnAcquire
  /\ scn.pc \in {"acquire", "release"} /\ rel = <<>> => Range(got) \cap db.closed = {}
  /\ scn.pc = "end" =>
       /\ Len(pool.conns) = scn.n
       /\ Range(pool.conns) = {rel[j] : j \in 1..scn.n}
       /\ rel[scn.n + 1] \in db.closed
       /\ \A j \in 1..scn.n : rel[j] \notin db.closed

\* the scenario has run to its end with the largest pool size
C8_Witness == scn.pc = "end" /\ scn.n = ScnMaxN

Succeeded(a) == a.pc = "done" /\ a.exc = "none"

\* handlers registered without a setup routine
NoSetup == Handlers \ SetupFn
\* a reload pass is in progress
Reloading == Len(stk) > 1

\* C16 (as claimed): the lock of a handler without setup routine is never
\* acquired by a reload, and a request against such a handler is never
\* blocked while a reload pass is in progress.
C16_NoSetupNeverDelayed ==
  /\ \A h \in NoSetup : rw[LockOf(h)].writer = NoOwner
  /\ \A w \in Workers : (wk[w].name \in NoSetup /\ Reloading) => ~Blocked(w)

\* C16 (amended): for a handler H without setup routine Handler.setup and
\* Handler.reload are no-ops: no setup runs for H, its lock is never asked
\* for nor held in write mode, and a request against H never waits for H's
\* lock; the only thing it can wait for is the pool's lock while another
\* thread is inside a pool operation.
C16_NoSetupLockNeverTaken ==
  /\ \A h \in NoSetup :
       /\ rw[LockOf(h)].writer = NoOwner
       /\ \A j \in Frames :
            /\ CountOf(stk[j].ev, "setup", h) + CountOf(stk[j].ev, "setup_raised", h)
                 + CountOf(stk[j].ev, "refused", h) = 0
            /\ stk[j].pc \in {"b_setupfn", "sig_setupfn", "sig_relw"} => HandlerOrder[stk[j].i] # h
  /\ \A w \in Workers :
       (wk[w].name \in NoSetup /\ Blocked(w)) =>
          wk[w].op = "lock" /\ poolLock \notin {NoOwner, w}

\* a reload pass went over h3, which has no setup routine, while a request
\* was inside h3's handle routine holding read access
C16_Witness ==
  \E j \in SigFrames, w \in Workers :
    /\ CountOf(stk[j].ev, "reload", "h3") = 1
    /\ wk[w].pc = "handle_fn" /\ wk[w].name = "h3" /\ w \in rw[LockOf("h3")].readers
    /\ Count(wk[w].ev, "handle") = 0

\* a request is inside Handler.handle of h / a reload is inside Handler.reload of h
InHandle(w, h) == wk[w].pc \in {"handle_fn", "rel_read"} /\ wk[w].name = h
InReload(j, h) == stk[j].pc \in {"sig_setupfn", "sig_relw"} /\ HandlerOrder[stk[j].i] = h

\* C17: handler locks are released on every exit path: a thread has read
\* access to h only while it is inside Handler.handle of h, and the main
\* thread has write access only while a frame of it is inside Handler.reload
\* of h; so the lock of h is idle whenever no request and no reload is in
\* progress against h.
C17_LocksReleased ==
  \A h \in Handlers :
    /\ \A w \in rw[LockOf(h)].readers : w \in Workers /\ InHandle(w, h)
    /\ rw[LockOf(h)].writer # NoOwner => \E j \in SigFrames : InReload(j, h)

\* C18: at most one reload pass is in progress at any time: the main thread
\* never has two sighup_handle frames that are both at work on the pool or
\* the handlers, one started before the other has finished.
C18_OneReloadPass == Cardinality({j \in SigFrames : stk[j].pc # "sig_ret"}) <= 1

\* connections the activations hold (borrowed from the pool and not yet released)
Borrowed == ({wk[w].conn : w \in Workers} \cup {stk[j].conn : j \in Frames}) \ {NoConn}

\* C19: every connection in the reserve is open, the reserve holds no
\* connection twice and none that is borrowed, also after a reload in which
\* opening a new connection failed; so acquire never hands out a closed
\* connection.
C19_ReserveOpen ==
  /\ Range(pool.conns) \cap db.closed = {}
  /\ Range(pool.conns) \cap Borrowed = {}
  /\ Cardinality(Range(pool.conns)) = Len(pool.conns)
  /\ \A w \in Workers : wk[w].pc \in {"cursor", "acq_read", "handle_fn"} => wk[w].conn \notin db.closed

\* C20: a failed reload does not stop the server: whatever raises in a reload
\* pass, no exception is raised in the serving loop (where it would end
\* serve_forever and with it run()), and the main thread, once serving, goes
\* on serving.
C20_FailedReloadKeepsServing ==
  /\ [](\A j \in Frames : ~(stk[j].pc = "serve" /\ stk[j].pend))
  /\ [][(Len(stk) > 0 /\ stk[1].pc = "serve") => stk'[1].pc = "serve"]_vars

\* C10 (as claimed): on a successful request: look up the handler, acquire a
\* connection, acquire read access, run the handle routine, commit, release
\* the connection, release read access, acknowledge.
C10_ClaimedOrder ==
  \A w \in Workers : Succeeded(wk[w]) =>
    Kinds(wk[w].ev) = <<"lookup", "acquire", "acquire_read", "handle", "commit",
                        "release", "release_read", "ack">>

\* C10 (amended): on a successful request: acquire a connection, look up the
\* handler, acquire read access, run the handle routine, release read access,
\* commit, acknowledge, and only then release the connection.
C10_CodeOrder ==
  \A w \in Workers : Succeeded(wk[w]) =>
    Kinds(wk[w].ev) = <<"acquire", "lookup", "acquire_read", "handle", "release_read",
                        "commit", "ack", "release">>

\* a request has succeeded
C10_Witness == \E w \in Workers : Succeeded(wk[w])

====
